---- MODULE Spec2Model ----
(***************************************************************************)
(* RationGuard dataset generator (Scripts/dataset_generator.py).           *)
(*                                                                         *)
(* generate_record is a function of the values its random draws return;    *)
(* generate_dataset is a state machine over the list `data`, one step per  *)
(* loop iteration, followed by the table post-processing.                  *)
(* Quantities in kg are kept in tenths (one decimal), ages in years, dates *)
(* in days.                                                                *)
(***************************************************************************)
EXTENDS Integers, Sequences, FiniteSets, TLC

VARIABLES
    pc,         \* position in generate_dataset / __main__
    n_records,  \* args.records
    genuine,    \* batch sizes (line 175-177)
    subsidy,
    duplicate,
    idx,        \* the loop variable `_`
    data,       \* the list of assembled records
    df,         \* rows of the exported table
    columns,    \* columns of the exported table
    error,      \* the uncaught exception, "" when none
    today,      \* the day on which the run is started (date.today())
    tape,       \* the values the seeded generators return, record by record
    runs,       \* outputs of the runs made with this seed
    order       \* the permutation df.sample draws: row k of df is data[order[k]]

vars == <<pc, n_records, genuine, subsidy, duplicate, idx, data, df, columns,
          error, today, tape, runs, order>>

(***************************************************************************)
(* Bounds of the model.                                                    *)
(***************************************************************************)
MaxN == 5            \* largest record count of the assembler runs
MaxNeg == 1          \* smallest record count is -MaxNeg
MaxBatchN == 100     \* largest record count of the batch-size computation
MaxAadhaar == 2      \* Aadhaar numbers are drawn from 1..MaxAadhaar
MaxDependents == 1   \* num_dependents is drawn from 0..MaxDependents
MaxVary == 1         \* commodities 1..MaxVary draw their ledger freely
MaxDay == 1          \* runs are started on day 0..MaxDay
MaxRunN == 3         \* largest record count of the repeated runs

(***************************************************************************)
(* IEEE-754 binary64 arithmetic of  int(n_records*0.7), int(n_records*0.2) *)
(* A mantissa is a sequence of bits, least significant first.              *)
(***************************************************************************)
MantissaBits == 53

\* 0.7 is the double 0x1.6666666666666p-1 = Mant07 * 2^-Exp07
Exp07 == 53
Mant07 ==
    <<0,1,1,0, 0,1,1,0, 0,1,1,0, 0,1,1,0, 0,1,1,0, 0,1,1,0, 0,1,1,0,
      0,1,1,0, 0,1,1,0, 0,1,1,0, 0,1,1,0, 0,1,1,0, 0,1,1,0, 1>>

\* 0.2 is the double 0x1.999999999999ap-3 = Mant02 * 2^-Exp02
Exp02 == 55
Mant02 ==
    <<0,1,0,1, 1,0,0,1, 1,0,0,1, 1,0,0,1, 1,0,0,1, 1,0,0,1, 1,0,0,1,
      1,0,0,1, 1,0,0,1, 1,0,0,1, 1,0,0,1, 1,0,0,1, 1,0,0,1, 1>>

RECURSIVE MulBits(_, _, _)
\* bits of k * m + carry, exactly
MulBits(k, m, carry) ==
    IF m = <<>>
    THEN IF carry = 0 THEN <<>>
         ELSE <<carry % 2>> \o MulBits(k, <<>>, carry \div 2)
    ELSE LET t == k * Head(m) + carry
         IN <<t % 2>> \o MulBits(k, Tail(m), t \div 2)

RECURSIVE IncBits(_)
\* bits of m + 1
IncBits(m) ==
    IF m = <<>> THEN <<1>>
    ELSE IF Head(m) = 0 THEN <<1>> \o Tail(m)
    ELSE <<0>> \o IncBits(Tail(m))

\* round an exact product to MantissaBits significant bits, ties to even;
\* the result is [bits, shift]: value = bits * 2^shift * (unit of the operand)
RoundNearestEven(p) ==
    IF Len(p) <= MantissaBits THEN [bits |-> p, shift |-> 0]
    ELSE LET drop == Len(p) - MantissaBits
             kept == SubSeq(p, drop + 1, Len(p))
             half == p[drop] = 1
             sticky == \E i \in 1..(drop - 1) : p[i] = 1
             up == half /\ (sticky \/ kept[1] = 1)
         IN [bits |-> IF up THEN IncBits(kept) ELSE kept, shift |-> drop]

RECURSIVE BitsValue(_)
BitsValue(m) == IF m = <<>> THEN 0 ELSE Head(m) + 2 * BitsValue(Tail(m))

\* int(k * c) for k >= 0 and the double c = mant * 2^-exp: the product is
\* rounded to a double, then truncated
TruncMulNat(k, mant, exp) ==
    LET r == RoundNearestEven(MulBits(k, mant, 0))
        frac == exp - r.shift     \* number of fractional bits of r.bits
    IN IF Len(r.bits) <= frac THEN 0
       ELSE BitsValue(SubSeq(r.bits, frac + 1, Len(r.bits)))

\* int() truncates toward zero, and the rounding is symmetric in the sign
IntMul(n, mant, exp) ==
    IF n >= 0 THEN TruncMulNat(n, mant, exp) ELSE 0 - TruncMulNat(0 - n, mant, exp)

GenuineCount(n) == IntMul(n, Mant07, Exp07)
SubsidyCount(n) == IntMul(n, Mant02, Exp02)
DuplicateCount(n) == n - GenuineCount(n) - SubsidyCount(n)


(***************************************************************************)
(* Module constants (lines 36-44) and the literals of generate_record.     *)
(***************************************************************************)
RELATIONS == <<"Son", "Daughter", "Spouse", "Mother", "Father">>

COMMODITIES ==
    <<"Rice", "Wheat", "Sugar", "Kerosene", "Masoor", "Chana", "Moong", "Salt",
      "PalmOil", "SoyabeanOil">>

Range(s) == {s[i] : i \in DOMAIN s}

DependentSlots == 5        \* range(1,6)
MinHeadAge == 18           \* randint(18, 75)
MaxHeadAge == 75
ChildMaxAge == 24          \* randint(0, 24)
SpouseSpan == 10           \* randint(Age-10, Age+10)
ParentMinGap == 16         \* randint(Age+16, Age+45)
ParentMaxGap == 45
AdultAge == 25             \* int(Age) >= 25
EntLowTenths == 25         \* uniform(family_size*2.5, family_size*5.0)
EntHighTenths == 50
UnderLowPct == 20          \* uniform(0.2, 0.8)
UnderHighPct == 80
NearLowPct == 90           \* uniform(0.9, 1.0)
NearHighPct == 100
OverLowTenths == 5         \* uniform(0.5, 3.0)
OverHighTenths == 30
DaysPerYear == 365         \* start_date='-1y'
TargetColumns == 65        \* while df.shape[1] < 65

(***************************************************************************)
(* Random draws.  A draw names which value of its range a generator call   *)
(* returns: pick 0 is the low end of the range, pick 1 the high end.       *)
(***************************************************************************)
Picks == {0, 1}

Pick(lo, hi, p) == IF p = 0 THEN lo ELSE hi

\* round(a/b): to nearest, ties to even (Python's round; on the values drawn
\* here the float products are exact enough for round(x, 1) to agree)
RoundDiv(a, b) ==
    LET q == a \div b
        r == a % b
    IN IF 2 * r < b THEN q
       ELSE IF 2 * r > b THEN q + 1
       ELSE IF q % 2 = 0 THEN q ELSE q + 1

\* the claim branches of lines 104-110: r < 0.3, r < 0.8 with
\* random() < 0.6, r < 0.8 otherwise, r >= 0.8
ClaimBranches == {"under", "near", "exact", "over"}

\* lines 103-110, in tenths of a kg
Entitlement(family_size, c) ==
    Pick(family_size * EntLowTenths, family_size * EntHighTenths, c.pick)

Claim(ent, c) ==
    CASE c.branch = "under" ->
            RoundDiv(ent * Pick(UnderLowPct, UnderHighPct, c.pick), 100)
      [] c.branch = "near" ->
            RoundDiv(ent * Pick(NearLowPct, NearHighPct, c.pick), 100)
      [] c.branch = "exact" -> ent
      [] c.branch = "over" -> ent + Pick(OverLowTenths, OverHighTenths, c.pick)

\* lines 87-92 with the children's range reaching the adult age
DependentAgeChildTo25(relation, head_age, p) ==
    IF relation \in {"Son", "Daughter"} THEN Pick(0, AdultAge, p)
    ELSE IF relation = "Spouse"
         THEN Pick(head_age - SpouseSpan, head_age + SpouseSpan, p)
         ELSE Pick(head_age + ParentMinGap, head_age + ParentMaxGap, p)

\* lines 87-92
DependentAge(relation, head_age, p) ==
    IF relation \in {"Son", "Daughter"} THEN Pick(0, ChildMaxAge, p)
    ELSE IF relation = "Spouse"
         THEN Pick(head_age - SpouseSpan, head_age + SpouseSpan, p)
         ELSE Pick(head_age + ParentMinGap, head_age + ParentMaxGap, p)

\* an empty dependent slot holds "" in every field; a populated Age is <<age>>
EmptySlot == [Relation |-> "", Age |-> <<>>]

\* lines 80-97
Dependents(d) ==
    [i \in 1..DependentSlots |->
        IF i <= Len(d.deps)
        THEN [Relation |-> d.deps[i].relation,
              Age |-> <<DependentAge(d.deps[i].relation, d.age, d.deps[i].pick)>>]
        ELSE EmptySlot]

RECURSIVE SumOver(_, _)
SumOver(f, S) ==
    IF S = {} THEN 0
    ELSE LET x == CHOOSE y \in S : TRUE IN f[x] + SumOver(f, S \ {x})

\* line 127 with >= for >
OverClaimedOrEqual(ent, claimed, c) == claimed[c] >= ent[c]

\* line 127: the commodities whose claim exceeds the entitlement, in order
OverClaimed(ent, claimed, c) == claimed[c] > ent[c]

ItemOver(ent, claimed) ==
    SelectSeq(COMMODITIES, LAMBDA c : OverClaimed(ent, claimed, c))

\* lines 153-155
IsAdultDependent(slot) ==
    /\ slot.Relation \in {"Son", "Daughter"}
    /\ slot.Age # <<>>
    /\ slot.Age[1] >= AdultAge

\* lines 151-160
FraudReasons(deps, item_over, mismatch) ==
    (IF \E i \in 1..DependentSlots : IsAdultDependent(deps[i])
     THEN <<"Adult_Dependent">> ELSE <<>>)
    \o (IF item_over # <<>>
        THEN [k \in 1..Len(item_over) |-> "Overclaim_" \o item_over[k]]
        ELSE <<>>)
    \o (IF mismatch = 1 THEN <<"Income_Subsidy_Mismatch">> ELSE <<>>)

\* line 137: a date of the year that ends on the day of the run
DateBetween(day, p) == Pick(day - DaysPerYear, day, p)

\* lines 65-170
generate_record(d, day) ==
    LET deps == Dependents(d)
        family_size == 1 + Len(d.deps)
        ent == [c \in Range(COMMODITIES) |->
                  Entitlement(family_size,
                              d.ledger[CHOOSE k \in DOMAIN COMMODITIES : COMMODITIES[k] = c])]
        claimed == [c \in Range(COMMODITIES) |->
                      Claim(ent[c],
                            d.ledger[CHOOSE k \in DOMAIN COMMODITIES : COMMODITIES[k] = c])]
        item_over == ItemOver(ent, claimed)
        over_claim_flag == IF item_over # <<>> THEN 1 ELSE 0
        mismatch == IF d.income = "High" /\ d.subsidy = "Yes" THEN 1 ELSE 0
        fraud_reasons == FraudReasons(deps, item_over, mismatch)
    IN [Aadhaar_ID |-> d.aadhaar,
        Age |-> d.age,
        Income_Level |-> d.income,
        Dependent |-> deps,
        Entitled |-> ent,
        Claimed |-> claimed,
        Left |-> [c \in Range(COMMODITIES) |-> ent[c] - claimed[c]],
        Subsidy_Availed |-> d.subsidy,
        Duplicate_Aadhaar_Flag |-> 0,
        Transaction_Date |-> DateBetween(day, d.date),
        Remarks |-> <<>>,
        Num_Dependents |-> Len(d.deps),
        Num_Children |->
            Cardinality({i \in 1..DependentSlots : deps[i].Relation \in {"Son", "Daughter"}}),
        Any_Parent |->
            IF \E i \in 1..DependentSlots : deps[i].Relation \in {"Mother", "Father"}
            THEN 1 ELSE 0,
        Total_Entitlement |-> SumOver(ent, Range(COMMODITIES)),
        Total_Claimed |-> SumOver(claimed, Range(COMMODITIES)),
        Over_Claim_Flag |-> over_claim_flag,
        Income_Subsidy_Mismatch |-> mismatch,
        Fraud_Label |-> IF fraud_reasons # <<>> THEN 1 ELSE 0,
        Fraud_Reasons_List |-> fraud_reasons]

\* the keys generate_record puts into a record (lines 69-168)
RecordKeys ==
    {"Ration_ID", "Name", "Age", "Gender", "Address", "Phone_No", "Aadhaar_ID",
     "Block", "Income_Level"}
    \cup UNION {{"Dependent" \o ToString(i) \o "_Name",
                 "Dependent" \o ToString(i) \o "_Aadhaar_ID",
                 "Dependent" \o ToString(i) \o "_Relation",
                 "Dependent" \o ToString(i) \o "_Age"} : i \in 1..DependentSlots}
    \cup UNION {{c \o "_Entitled", c \o "_Claimed"} : c \in Range(COMMODITIES)}
    \cup {"Subsidy_Availed"}
    \cup UNION {{c \o "_Left", c \o "_Left_Percent"} : c \in Range(COMMODITIES)}
    \cup {"Duplicate_Aadhaar_Flag", "Transaction_Date", "Shop_ID", "Block_Name",
          "Remarks", "Num_Dependents", "Num_Children", "Any_Parent",
          "Total_Entitlement", "Total_Claimed", "Claimed_vs_Entitled_Percent",
          "Over_Claim_Flag", "Income_Subsidy_Mismatch", "Fraud_Label",
          "_Fraud_Reasons_List", "Percentage_Ration_Left"}


(***************************************************************************)
(* The bounded sets of draws.                                              *)
(***************************************************************************)
\* one commodity's draws: the branch of lines 104-110, and the end of the
\* range that its uniform() calls (entitlement and claim alike) return
CommodityDraws == [branch : ClaimBranches, pick : Picks]

DefaultCommodityDraw == [branch |-> "exact", pick |-> 0]

LedgerDraws ==
    {[k \in DOMAIN COMMODITIES |-> IF k <= MaxVary THEN v[k] ELSE DefaultCommodityDraw] :
        v \in [1..MaxVary -> CommodityDraws]}

DependentDraws ==
    UNION {[1..k -> [relation : Range(RELATIONS), pick : Picks]] : k \in 0..MaxDependents}

DefaultDraw ==
    [aadhaar |-> 1, age |-> MinHeadAge, income |-> "Low", subsidy |-> "No",
     deps |-> <<>>, ledger |-> [k \in DOMAIN COMMODITIES |-> DefaultCommodityDraw],
     date |-> 0, choice |-> 0]

\* the draws of one generate_record call, every field free (within the bounds)
RecordDraws ==
    {[DefaultDraw EXCEPT !.age = a, !.income = inc, !.subsidy = sub, !.deps = dp,
                         !.ledger = l] :
        a \in {MinHeadAge, MaxHeadAge}, inc \in {"Low", "Medium", "High"},
        sub \in {"Yes", "No"}, dp \in DependentDraws, l \in LedgerDraws}

\* the draws of the assembler runs: the Aadhaar number and the first
\* commodity's claim vary
AssemblerDraws ==
    {[DefaultDraw EXCEPT !.aadhaar = a, !.ledger[1].branch = b] :
        a \in 1..MaxAadhaar, b \in {"exact", "over"}}

\* the draws of the repeated runs: the Aadhaar number, the transaction date
\* and the choice of the duplicated record vary
RunDraws ==
    {[DefaultDraw EXCEPT !.aadhaar = a, !.date = p, !.choice = c] :
        a \in 1..MaxAadhaar, p \in Picks, c \in Picks}

(***************************************************************************)
(* generate_dataset: the loop bodies and the post-processing.              *)
(***************************************************************************)
\* lines 184-185 without the reset of the reason list
GenuineBodyKeepsReasons(d, day) ==
    [generate_record(d, day) EXCEPT !.Fraud_Label = 0]

\* lines 184-185
GenuineBody(d, day) ==
    [generate_record(d, day) EXCEPT !.Fraud_Label = 0, !.Fraud_Reasons_List = <<>>]

\* lines 190-195 with the reason appended to the derived ones
SubsidyBodyAppends(d, day) ==
    [generate_record(d, day) EXCEPT
        !.Income_Level = "High",
        !.Subsidy_Availed = "Yes",
        !.Income_Subsidy_Mismatch = 1,
        !.Fraud_Label = 1,
        !.Fraud_Reasons_List = @ \o <<"Income_Subsidy_Mismatch">>]

\* lines 190-195
SubsidyBody(d, day) ==
    [generate_record(d, day) EXCEPT
        !.Income_Level = "High",
        !.Subsidy_Availed = "Yes",
        !.Income_Subsidy_Mismatch = 1,
        !.Fraud_Label = 1,
        !.Fraud_Reasons_List = <<"Income_Subsidy_Mismatch">>]

\* lines 200-205 without the copy of prev's Aadhaar_ID
DuplicateBodyKeepsOwnId(d, day, prev) ==
    [generate_record(d, day) EXCEPT
        !.Duplicate_Aadhaar_Flag = 1,
        !.Fraud_Label = 1,
        !.Fraud_Reasons_List = @ \o <<"Duplicate_Aadhaar">>]

\* lines 200-205, prev = random.choice(data)
DuplicateBody(d, day, prev) ==
    [generate_record(d, day) EXCEPT
        !.Aadhaar_ID = prev.Aadhaar_ID,
        !.Duplicate_Aadhaar_Flag = 1,
        !.Fraud_Label = 1,
        !.Fraud_Reasons_List = @ \o <<"Duplicate_Aadhaar">>]

\* every reason tag, in the order sorted() gives strings
SortedTags ==
    <<"Adult_Dependent", "Duplicate_Aadhaar", "Income_Subsidy_Mismatch",
      "Overclaim_Chana", "Overclaim_Kerosene", "Overclaim_Masoor",
      "Overclaim_Moong", "Overclaim_PalmOil", "Overclaim_Rice", "Overclaim_Salt",
      "Overclaim_SoyabeanOil", "Overclaim_Sugar", "Overclaim_Wheat">>

\* line 211: ";".join(sorted(set(reasons))), kept as the sequence of the tags
RemarksOf(reasons) ==
    IF reasons # <<>>
    THEN SelectSeq(SortedTags, LAMBDA t : t \in Range(reasons))
    ELSE <<>>

FillRemarks(r) == [r EXCEPT !.Remarks = RemarksOf(r.Fraud_Reasons_List)]

\* line 217: the row without its _Fraud_Reasons_List column
DropReasons(r) == [f \in DOMAIN r \ {"Fraud_Reasons_List"} |-> r[f]]

\* line 208: the columns of pd.DataFrame(data) are the keys of its records
FrameColumns(rows) == UNION {RecordKeys : i \in DOMAIN rows}

\* lines 214-215: the padding loop.  Every pass assigns the column named
\* DerivedFeature_<shape[1] - len(columns) + 1>, computed from Total_Entitlement
RECURSIVE PadColumns(_)
PadColumns(cols) ==
    IF Cardinality(cols) >= TargetColumns THEN [outcome |-> "padded", cols |-> cols]
    ELSE IF "Total_Entitlement" \notin cols THEN [outcome |-> "KeyError", cols |-> cols]
    ELSE LET name == "DerivedFeature_"
                        \o ToString(Cardinality(cols) - Cardinality(cols) + 1)
         IN IF name \in cols THEN [outcome |-> "loops", cols |-> cols]
            ELSE PadColumns(cols \cup {name})

\* lines 208-217: the columns of the exported table
ExportColumns(rows) ==
    PadColumns(FrameColumns(rows) \cup {"Remarks"}).cols \ {"_Fraud_Reasons_List"}

\* line 218: df.sample(frac=1, random_state=42) is one fixed permutation of the
\* rows for each length; the model takes it among the rotations
ShufflePerms(n) == {[i \in 1..n |-> ((i - 1 + k) % n) + 1] : k \in 0..(n - 1)}

Shuffled(rows, perm) == [i \in DOMAIN rows |-> rows[perm[i]]]

\* lines 208-218 for a non-empty data
ExportRows(rows, perm) ==
    Shuffled([i \in DOMAIN rows |-> DropReasons(FillRemarks(rows[i]))], perm)

\* random.choice(seq) with the draw p: an index of seq
ChoiceIndex(len, p) == Pick(1, len, p)


(***************************************************************************)
(* generate_dataset as a state machine (one run, started on day `today`).  *)
(***************************************************************************)
NoRun == <<>>

Init ==
    /\ pc = "sizes"
    /\ n_records \in (0 - MaxNeg)..MaxN
    /\ genuine = 0 /\ subsidy = 0 /\ duplicate = 0
    /\ idx = 0
    /\ data = <<>>
    /\ df = <<>>
    /\ columns = {}
    /\ error = ""
    /\ today = 0
    /\ tape = <<>>
    /\ runs = NoRun
    /\ order = <<>>

\* lines 175-178
ComputeBatchSizes ==
    /\ pc = "sizes"
    /\ genuine' = GenuineCount(n_records)
    /\ subsidy' = SubsidyCount(n_records)
    /\ duplicate' = DuplicateCount(n_records)
    /\ idx' = 0
    /\ pc' = "genuine"
    /\ UNCHANGED <<n_records, data, df, columns, error, today, tape, runs, order>>

\* lines 183-186: one pass of  for _ in range(genuine)
GenuineIter ==
    /\ pc = "genuine"
    /\ idx < genuine
    /\ \E d \in AssemblerDraws : data' = Append(data, GenuineBody(d, today))
    /\ idx' = idx + 1
    /\ UNCHANGED <<pc, n_records, genuine, subsidy, duplicate, df, columns, error,
                   today, tape, runs, order>>

GenuineDone ==
    /\ pc = "genuine"
    /\ idx >= genuine
    /\ pc' = "subsidy"
    /\ idx' = genuine
    /\ UNCHANGED <<n_records, genuine, subsidy, duplicate, data, df, columns, error,
                   today, tape, runs, order>>

\* lines 189-196: one pass of  for _ in range(genuine, genuine+subsidy)
SubsidyIter ==
    /\ pc = "subsidy"
    /\ idx < genuine + subsidy
    /\ \E d \in AssemblerDraws : data' = Append(data, SubsidyBody(d, today))
    /\ idx' = idx + 1
    /\ UNCHANGED <<pc, n_records, genuine, subsidy, duplicate, df, columns, error,
                   today, tape, runs, order>>

SubsidyDone ==
    /\ pc = "subsidy"
    /\ idx >= genuine + subsidy
    /\ pc' = "duplicate"
    /\ idx' = genuine + subsidy
    /\ UNCHANGED <<n_records, genuine, subsidy, duplicate, data, df, columns, error,
                   today, tape, runs, order>>

\* lines 199-206: one pass of  for _ in range(genuine+subsidy, n_records)
DuplicateIter ==
    /\ pc = "duplicate"
    /\ idx < n_records
    /\ data # <<>>
    /\ \E d \in AssemblerDraws, j \in DOMAIN data :
           data' = Append(data, DuplicateBody(d, today, data[j]))
    /\ idx' = idx + 1
    /\ UNCHANGED <<pc, n_records, genuine, subsidy, duplicate, df, columns, error,
                   today, tape, runs, order>>

\* line 201 on an empty list: random.choice raises IndexError
DuplicateChoiceFails ==
    /\ pc = "duplicate"
    /\ idx < n_records
    /\ data = <<>>
    /\ pc' = "crashed"
    /\ error' = "IndexError"
    /\ UNCHANGED <<n_records, genuine, subsidy, duplicate, idx, data, df, columns,
                   today, tape, runs, order>>

DuplicateDone ==
    /\ pc = "duplicate"
    /\ idx >= n_records
    /\ pc' = "table"
    /\ UNCHANGED <<n_records, genuine, subsidy, duplicate, idx, data, df, columns,
                   error, today, tape, runs, order>>

\* lines 208-215 on an empty data: the frame has no Total_Entitlement column
\* for the padding loop to read (KeyError), when the assignment of the empty
\* Remarks frame has not been refused before (ValueError)
TableFails ==
    /\ pc = "table"
    /\ data = <<>>
    /\ \E e \in {"ValueError", PadColumns(FrameColumns(data) \cup {"Remarks"}).outcome} :
           error' = e
    /\ pc' = "crashed"
    /\ UNCHANGED <<n_records, genuine, subsidy, duplicate, idx, data, df, columns,
                   today, tape, runs, order>>

\* lines 208-225
PostProcess ==
    /\ pc = "table"
    /\ data # <<>>
    /\ PadColumns(FrameColumns(data) \cup {"Remarks"}).outcome = "padded"
    /\ columns' = ExportColumns(data)
    /\ \E perm \in ShufflePerms(Len(data)) :
           /\ order' = perm
           /\ df' = ExportRows(data, perm)
    /\ pc' = "done"
    /\ UNCHANGED <<n_records, genuine, subsidy, duplicate, idx, data, error, today,
                   tape, runs>>

Next ==
    \/ ComputeBatchSizes
    \/ GenuineIter
    \/ GenuineDone
    \/ SubsidyIter
    \/ SubsidyDone
    \/ DuplicateIter
    \/ DuplicateChoiceFails
    \/ DuplicateDone
    \/ TableFails
    \/ PostProcess

Spec == Init /\ [][Next]_vars

Terminal == {"done", "crashed"}

(***************************************************************************)
(* The batch sizes alone, over a wide range of record counts.              *)
(***************************************************************************)
InitBatch ==
    /\ pc = "sizes"
    /\ n_records \in 0..MaxBatchN
    /\ genuine = 0 /\ subsidy = 0 /\ duplicate = 0
    /\ idx = 0
    /\ data = <<>>
    /\ df = <<>>
    /\ columns = {}
    /\ error = ""
    /\ today = 0
    /\ tape = <<>>
    /\ runs = NoRun
    /\ order = <<>>

NextBatch == ComputeBatchSizes

SpecBatch == InitBatch /\ [][NextBatch]_vars


(***************************************************************************)
(* One record through generate_record, a loop body and the Remarks fill,   *)
(* with every draw of generate_record free.  `tape` holds the draws.       *)
(***************************************************************************)
InitRecord ==
    /\ pc = "record"
    /\ tape \in RecordDraws
    /\ n_records = 0
    /\ genuine = 0 /\ subsidy = 0 /\ duplicate = 0
    /\ idx = 0
    /\ data = <<>>
    /\ df = <<>>
    /\ columns = {}
    /\ error = ""
    /\ today = 0
    /\ runs = NoRun
    /\ order = <<>>

\* lines 184-186, then 208-218 on the one-record table
RecordGenuine ==
    /\ pc = "record"
    /\ data' = <<GenuineBody(tape, today)>>
    /\ genuine' = 1
    /\ n_records' = 1
    /\ order' = <<1>>
    /\ df' = ExportRows(data', order')
    /\ columns' = ExportColumns(data')
    /\ pc' = "done"
    /\ UNCHANGED <<subsidy, duplicate, idx, error, today, tape, runs>>

\* lines 190-196, then 208-218 on the one-record table
RecordSubsidy ==
    /\ pc = "record"
    /\ data' = <<SubsidyBody(tape, today)>>
    /\ subsidy' = 1
    /\ n_records' = 1
    /\ order' = <<1>>
    /\ df' = ExportRows(data', order')
    /\ columns' = ExportColumns(data')
    /\ pc' = "done"
    /\ UNCHANGED <<genuine, duplicate, idx, error, today, tape, runs>>

\* lines 200-206 after one genuine record, then 208-218: the run with
\* n_records = 2
RecordDuplicate ==
    /\ pc = "record"
    /\ LET prev == GenuineBody(DefaultDraw, today)
       IN data' = <<prev, DuplicateBody(tape, today, prev)>>
    /\ genuine' = 1
    /\ duplicate' = 1
    /\ n_records' = 2
    /\ \E perm \in ShufflePerms(2) :
           /\ order' = perm
           /\ df' = ExportRows(data', perm)
    /\ columns' = ExportColumns(data')
    /\ pc' = "done"
    /\ UNCHANGED <<subsidy, idx, error, today, tape, runs>>

NextRecord ==
    \/ RecordGenuine
    \/ RecordSubsidy
    \/ RecordDuplicate

SpecRecord == InitRecord /\ [][NextRecord]_vars

(***************************************************************************)
(* Runs of generate_dataset that share the seed and n_records.  The seed   *)
(* fixes what every generator call returns (`tape`) and random_state=42    *)
(* fixes the shuffle (`order`); the day of the run is the environment's.   *)
(***************************************************************************)
RECURSIVE Assemble(_, _, _, _)
\* lines 180-206: acc is `data`, and the loop variable is Len(acc)
Assemble(n, tp, day, acc) ==
    IF Len(acc) >= n THEN [error |-> "", data |-> acc]
    ELSE LET d == tp[Len(acc) + 1]
         IN IF Len(acc) < GenuineCount(n)
            THEN Assemble(n, tp, day, Append(acc, GenuineBody(d, day)))
            ELSE IF Len(acc) < GenuineCount(n) + SubsidyCount(n)
            THEN Assemble(n, tp, day, Append(acc, SubsidyBody(d, day)))
            ELSE IF acc = <<>> THEN [error |-> "IndexError", data |-> acc]
            ELSE Assemble(n, tp, day,
                     Append(acc, DuplicateBody(d, day,
                                     acc[ChoiceIndex(Len(acc), d.choice)])))

\* lines 174-225: what the run writes to the output file
generate_dataset(n, tp, perm, day) ==
    LET a == Assemble(n, tp, day, <<>>)
    IN IF a.error # "" THEN [error |-> a.error, rows |-> <<>>, columns |-> {}]
       ELSE IF a.data = <<>>
       THEN [error |-> PadColumns(FrameColumns(a.data) \cup {"Remarks"}).outcome,
             rows |-> <<>>, columns |-> {}]
       ELSE [error |-> "", rows |-> ExportRows(a.data, perm),
             columns |-> ExportColumns(a.data)]

InitRuns ==
    /\ pc = "runs"
    /\ n_records \in 1..MaxRunN
    /\ tape \in [1..n_records -> RunDraws]
    /\ order \in ShufflePerms(n_records)
    /\ today \in 0..MaxDay
    /\ genuine = 0 /\ subsidy = 0 /\ duplicate = 0
    /\ idx = 0
    /\ data = <<>>
    /\ df = <<>>
    /\ columns = {}
    /\ error = ""
    /\ runs = NoRun

\* lines 229-236: one run of the program, on the day `today`; the next run is
\* started the same day or later
Run ==
    /\ pc = "runs"
    /\ Len(runs) < 2
    /\ runs' = Append(runs, generate_dataset(n_records, tape, order, today))
    /\ today' \in today..MaxDay
    /\ UNCHANGED <<pc, n_records, genuine, subsidy, duplicate, idx, data, df, columns,
                   error, tape, order>>

NextRuns == Run

SpecRuns == InitRuns /\ [][NextRuns]_vars


(***************************************************************************)
(* Properties.                                                             *)
(***************************************************************************)
\* the batch of the i-th assembled record, by its place in `data`
BatchOf(i) ==
    IF i <= genuine THEN "genuine"
    ELSE IF i <= genuine + subsidy THEN "subsidy"
    ELSE "duplicate"

\* the record generate_record returns for the draws on the tape
Returned == generate_record(tape, today)

ClaimExceeds(r) == \E c \in Range(COMMODITIES) : r.Claimed[c] > r.Entitled[c]

\* C1: for any n_records >= 0 the exported table has exactly 65 columns.
C1_ExportHas65Columns ==
    pc = "done" => Cardinality(columns) = TargetColumns

\* C2: genuine = floor(0.7 N), subsidy = floor(0.2 N), duplicate is the
\* remainder, and the three sizes add up to N.
C2_BatchSizes ==
    pc = "genuine" =>
        /\ genuine = (7 * n_records) \div 10
        /\ subsidy = (2 * n_records) \div 10
        /\ duplicate = n_records - genuine - subsidy
        /\ genuine + subsidy + duplicate = n_records

\* C3: for n_records >= 1 the run completes all three loops and the table has
\* exactly n_records rows.
C3_AllRowsAssembled ==
    (n_records >= 1 /\ pc \in Terminal) => (pc = "done" /\ Len(df) = n_records)

\* C4: a record count <= 0 is rejected as a configuration error: no table is
\* built from the empty data and the run ends in no other failure.
C4_NonPositiveRejected ==
    n_records <= 0 =>
        /\ pc \notin {"table", "done"}
        /\ pc = "crashed" => error = "ConfigurationError"

\* C5: in every record, as returned by generate_record, after the override of
\* its batch and in the exported row, Fraud_Label = 1 iff the reason list
\* (the recomputed Remarks) is non-empty; a genuine record has label 0 and no
\* reason.
C5_LabelIffReasons ==
    /\ pc = "record" =>
          (Returned.Fraud_Label = 1 <=> Returned.Fraud_Reasons_List # <<>>)
    /\ \A i \in DOMAIN data :
          /\ data[i].Fraud_Label = 1 <=> data[i].Fraud_Reasons_List # <<>>
          /\ BatchOf(i) = "genuine" =>
                (data[i].Fraud_Label = 0 /\ data[i].Fraud_Reasons_List = <<>>)
    /\ \A k \in DOMAIN df :
          /\ df[k].Fraud_Label = 1 <=> df[k].Remarks # <<>>
          /\ BatchOf(order[k]) = "genuine" =>
                (df[k].Fraud_Label = 0 /\ df[k].Remarks = <<>>)

C5_Witness ==
    /\ pc = "done"
    /\ \E k \in DOMAIN df :
          /\ BatchOf(order[k]) = "genuine"
          /\ df[k].Over_Claim_Flag = 1
          /\ df[k].Income_Subsidy_Mismatch = 1
          /\ df[k].Fraud_Label = 0
          /\ df[k].Remarks = <<>>

\* C6: every subsidy-misuse record ends with Income_Level High,
\* Subsidy_Availed Yes, Income_Subsidy_Mismatch 1, Fraud_Label 1 and exactly
\* the one reason Income_Subsidy_Mismatch, in its list and in its Remarks.
C6_SubsidyBatchOverride ==
    /\ \A i \in DOMAIN data :
          BatchOf(i) = "subsidy" =>
              /\ data[i].Income_Level = "High"
              /\ data[i].Subsidy_Availed = "Yes"
              /\ data[i].Income_Subsidy_Mismatch = 1
              /\ data[i].Fraud_Label = 1
              /\ data[i].Fraud_Reasons_List = <<"Income_Subsidy_Mismatch">>
    /\ \A k \in DOMAIN df :
          BatchOf(order[k]) = "subsidy" =>
              /\ df[k].Income_Level = "High"
              /\ df[k].Subsidy_Availed = "Yes"
              /\ df[k].Income_Subsidy_Mismatch = 1
              /\ df[k].Fraud_Label = 1
              /\ df[k].Remarks = <<"Income_Subsidy_Mismatch">>

C6_Witness ==
    /\ pc = "done"
    /\ tape.income = "Low" /\ tape.subsidy = "No"
    /\ \E k \in DOMAIN df :
          /\ BatchOf(order[k]) = "subsidy"
          /\ df[k].Over_Claim_Flag = 1
          /\ df[k].Remarks = <<"Income_Subsidy_Mismatch">>

\* C7: every duplicate-batch record has Duplicate_Aadhaar_Flag 1, Fraud_Label
\* 1, the reason Duplicate_Aadhaar, and the Aadhaar_ID of a record appended
\* before it; both keep their Aadhaar_ID in the exported table.
C7_DuplicateSharesAadhaar ==
    /\ \A i \in DOMAIN data :
          BatchOf(i) = "duplicate" =>
              /\ data[i].Duplicate_Aadhaar_Flag = 1
              /\ data[i].Fraud_Label = 1
              /\ "Duplicate_Aadhaar" \in Range(data[i].Fraud_Reasons_List)
              /\ \E j \in 1..(i - 1) : data[j].Aadhaar_ID = data[i].Aadhaar_ID
    /\ \A k \in DOMAIN df :
          /\ df[k].Aadhaar_ID = data[order[k]].Aadhaar_ID
          /\ BatchOf(order[k]) = "duplicate" =>
                /\ df[k].Duplicate_Aadhaar_Flag = 1
                /\ df[k].Fraud_Label = 1
                /\ "Duplicate_Aadhaar" \in Range(df[k].Remarks)
                /\ \E m \in DOMAIN df : m # k /\ df[m].Aadhaar_ID = df[k].Aadhaar_ID

\* an exported table with two duplicates of one Aadhaar_ID, the later one
\* after the earlier, beside a record of another Aadhaar_ID
C7_Witness ==
    /\ pc = "done"
    /\ \E i \in DOMAIN data :
          /\ BatchOf(i) = "duplicate"
          /\ \E j \in 1..(i - 1) :
                /\ BatchOf(j) = "duplicate"
                /\ data[j].Aadhaar_ID = data[i].Aadhaar_ID
          /\ \E g \in 1..(i - 1) : data[g].Aadhaar_ID # data[i].Aadhaar_ID
          /\ \E k \in DOMAIN df : order[k] = i /\ df[k].Aadhaar_ID = data[i].Aadhaar_ID

\* C8: in every record of every batch Over_Claim_Flag = 1 iff some commodity's
\* claim exceeds its entitlement.
C8_OverClaimFlag ==
    /\ pc = "record" => (Returned.Over_Claim_Flag = 1 <=> ClaimExceeds(Returned))
    /\ \A i \in DOMAIN data : data[i].Over_Claim_Flag = 1 <=> ClaimExceeds(data[i])
    /\ \A k \in DOMAIN df :
          /\ df[k].Over_Claim_Flag = 1 <=> ClaimExceeds(df[k])
          /\ df[k].Entitled = data[order[k]].Entitled
          /\ df[k].Claimed = data[order[k]].Claimed

\* an exported duplicate-batch row that claims exactly the entitlement of
\* every commodity but one, which it over-claims by the least amount
C8_Witness ==
    /\ pc = "done"
    /\ \E k \in DOMAIN df :
          /\ BatchOf(order[k]) = "duplicate"
          /\ df[k].Over_Claim_Flag = 1
          /\ df[k].Claimed["Rice"] = df[k].Entitled["Rice"] + OverLowTenths
          /\ \A c \in Range(COMMODITIES) \ {"Rice"} :
                df[k].Claimed[c] = df[k].Entitled[c]

PopulatedChildren(r) ==
    {i \in 1..DependentSlots :
        r.Dependent[i].Relation \in {"Son", "Daughter"} /\ r.Dependent[i].Age # <<>>}

\* C10: every populated Son/Daughter slot has an age in 0..24, and no record
\* of any batch has Adult_Dependent among its reasons or in its Remarks.
C10_AdultDependentNeverFires ==
    /\ pc = "record" =>
          /\ \A i \in PopulatedChildren(Returned) :
                Returned.Dependent[i].Age[1] \in 0..ChildMaxAge
          /\ "Adult_Dependent" \notin Range(Returned.Fraud_Reasons_List)
    /\ \A n \in DOMAIN data :
          /\ \A i \in PopulatedChildren(data[n]) :
                data[n].Dependent[i].Age[1] \in 0..ChildMaxAge
          /\ "Adult_Dependent" \notin Range(data[n].Fraud_Reasons_List)
    /\ \A k \in DOMAIN df : "Adult_Dependent" \notin Range(df[k].Remarks)

\* an exported duplicate-batch row with a child of the greatest age
C10_Witness ==
    /\ pc = "done"
    /\ \E k \in DOMAIN df :
          /\ BatchOf(order[k]) = "duplicate"
          /\ \E i \in PopulatedChildren(df[k]) : df[k].Dependent[i].Age[1] = ChildMaxAge

\* C9: the runs made with one seed and one n_records write the same output.
C9_SameSeedSameOutput ==
    \A a, b \in DOMAIN runs : runs[a] = runs[b]

====
